---- MODULE Spec2Model ----
(***************************************************************************)
(* EC2 state-change notifier: lambda_handler fetches instance metadata,    *)
(* resolves the actor from CloudTrail (get_creator_of_instance), renders   *)
(* the Slack document and posts it to the webhook.                         *)
(*                                                                         *)
(* Python values are tagged records [t, v, n]:                             *)
(*   None  [t |-> "null"]      str   [t |-> "str",  v |-> token sequence]  *)
(*   int   [t |-> "int", n]    list  [t |-> "list", v |-> sequence]        *)
(*   dict  [t |-> "dict", v |-> function from keys to values]              *)
(* A str is the sequence of its tokens; the separators "/" and ":" are     *)
(* tokens of their own, so that str.split is computed, not assumed.        *)
(***************************************************************************)
EXTENDS Integers, Sequences, FiniteSets, TLC

\* ------------------------------------------------------------------ bounds
\* Pages the audit service holds for one event name, at most.
MaxPages == 2
\* Records on one page, at most.
MaxPageLen == 2

\* ------------------------------------------------------------ Python values
None == [t |-> "null", v |-> <<>>, n |-> 0]
Str(s) == [t |-> "str", v |-> s, n |-> 0]
PyInt(i) == [t |-> "int", v |-> <<>>, n |-> i]
List(l) == [t |-> "list", v |-> l, n |-> 0]
Dict(d) == [t |-> "dict", v |-> d, n |-> 0]
EmptyDict == Dict(<<>>)
EmptyList == List(<<>>)

\* bool(x) of a Python value
Truthy(x) ==
  CASE x.t = "null" -> FALSE
    [] x.t = "str"  -> Len(x.v) > 0
    [] x.t = "list" -> Len(x.v) > 0
    [] x.t = "dict" -> DOMAIN x.v # {}
    [] x.t = "int"  -> x.n # 0
    [] OTHER        -> TRUE

\* The outcome of evaluating an expression: a value, or the exception raised.
Ok(x) == [err |-> "none", val |-> x]
Raise(e) == [err |-> e, val |-> None]

\* obj.get(key, default): only a dict has .get
PyGet(obj, key, default) ==
  IF obj.t # "dict" THEN Raise("AttributeError")
  ELSE Ok(IF key \in DOMAIN obj.v THEN obj.v[key] ELSE default)

\* r.get(key, default) chained on an earlier outcome
Chain(r, key, default) ==
  IF r.err # "none" THEN r ELSE PyGet(r.val, key, default)

\* str(x) inside an f-string
PyStr(x) ==
  CASE x.t = "str"  -> x.v
    [] x.t = "null" -> <<"None">>
    [] OTHER        -> <<"?">>

\* s.split(sep) on a token sequence: always at least one piece
RECURSIVE SplitFrom(_, _, _, _)
SplitFrom(s, sep, i, cur) ==
  IF i > Len(s) THEN <<cur>>
  ELSE IF s[i] = sep THEN <<cur>> \o SplitFrom(s, sep, i + 1, <<>>)
  ELSE SplitFrom(s, sep, i + 1, Append(cur, s[i]))

Split(s, sep) == SplitFrom(s, sep, 1, <<>>)

\* seq[-k]: IndexError when the sequence is shorter than k
FromEnd(seq, k) ==
  IF Len(seq) < k THEN Raise("IndexError") ELSE Ok(seq[Len(seq) + 1 - k])

\* x == "literal" for a Python value x
PyEqStr(x, s) == x.t = "str" /\ x.v = s

\* ------------------------------------------------- get_creator_of_instance
\* The instance the invocation is about (event["detail"]["instance-id"]).
instance_id == <<"i-abc123">>
other_instance_id == <<"i-0ther">>

\* name_map.get(...) with a default event name instead of None
NameMapWithDefault(state) ==
  CASE state = "running"    -> <<"RunInstances", "StartInstances">>
    [] state = "stopping"   -> <<"StopInstances">>
    [] state = "terminated" -> <<"TerminateInstances">>
    [] OTHER                -> <<"RunInstances">>

\* name_map.get(...): None is the empty list here, "not event_names" either way
NameMap(state) ==
  CASE state = "running"    -> <<"RunInstances", "StartInstances">>
    [] state = "stopping"   -> <<"StopInstances">>
    [] state = "terminated" -> <<"TerminateInstances">>
    [] OTHER                -> <<>>

\* str.lower() on the state strings an event can carry
Lower(s) ==
  CASE s = "RUNNING"    -> "running"
    [] s = "Stopping"   -> "stopping"
    [] s = "Terminated" -> "terminated"
    [] OTHER            -> s

\* evt.get(loc, {}).get("instancesSet", {}).get("items", [])
GetItems(evt, loc) ==
  Chain(Chain(PyGet(evt, loc, EmptyDict), "instancesSet", EmptyDict),
        "items", EmptyList)

\* the truthy it.get("instanceId") of a list of dicts, in order
RECURSIVE IdsOf(_)
IdsOf(l) ==
  IF l = <<>> THEN <<>>
  ELSE LET id == PyGet(Head(l), "instanceId", None).val
       IN (IF Truthy(id) THEN <<id>> ELSE <<>>) \o IdsOf(Tail(l))

\* ids = [it.get("instanceId") for it in items if it.get("instanceId")]
Ids(items) ==
  CASE items.t = "list" ->
         IF \E i \in 1..Len(items.v) : items.v[i].t # "dict"
         THEN Raise("AttributeError")
         ELSE Ok(List(IdsOf(items.v)))
    [] items.t = "dict" ->
         IF DOMAIN items.v = {} THEN Ok(EmptyList) ELSE Raise("AttributeError")
    [] items.t = "str" ->
         IF Len(items.v) = 0 THEN Ok(EmptyList) ELSE Raise("AttributeError")
    [] OTHER -> Raise("TypeError")

\* instance_id in ids
InIds(id, ids) == \E i \in 1..Len(ids.v) : PyEqStr(ids.v[i], id)

\* f"{user_arn.split('/')[-2].split(':')[-1]}/{user_arn.split('/')[-1]} (AssumedRole)"
AssumedRoleLabel(user_arn) ==
  IF user_arn.t # "str" THEN Raise("AttributeError")
  ELSE LET parts == Split(user_arn.v, "/")
           role == FromEnd(parts, 2)
       IN IF role.err # "none" THEN role
          ELSE Ok(Str(FromEnd(Split(role.val, ":"), 1).val \o <<"/">>
                      \o FromEnd(parts, 1).val \o <<" (AssumedRole)">>))

\* user_arn.split('/')[-1] + " (Federated)"
FederatedLabel(user_arn) ==
  IF user_arn.t # "str" THEN Raise("AttributeError")
  ELSE Ok(Str(FromEnd(Split(user_arn.v, "/"), 1).val \o <<" (Federated)">>))

\* f"{issuer_arn.split('/')[-1]} (AssumedRole)"
IssuerLabel(issuer_arn) ==
  IF issuer_arn.t # "str" THEN Raise("AttributeError")
  ELSE Ok(Str(FromEnd(Split(issuer_arn.v, "/"), 1).val \o <<" (AssumedRole)">>))

\* user_identity.get("type", "<unknown_identity>")
TypeFallback(user_identity) ==
  PyGet(user_identity, "type", Str(<<"<unknown_identity>">>))

\* the username with the session issuer looked at before userName
UsernameIssuerFirst(user_identity, user_arn) ==
  LET username == PyGet(user_identity, "userName", None).val
      session_context == PyGet(user_identity, "sessionContext", EmptyDict)
      issuer_arn == Chain(Chain(session_context, "sessionIssuer", EmptyDict),
                          "arn", None)
      type == PyGet(user_identity, "type", None).val
  IN IF issuer_arn.err # "none" THEN issuer_arn
     ELSE IF Truthy(issuer_arn.val) THEN IssuerLabel(issuer_arn.val)
     ELSE IF Truthy(username) THEN Ok(username)
     ELSE IF PyEqStr(type, <<"AssumedRole">>) THEN AssumedRoleLabel(user_arn)
     ELSE IF PyEqStr(type, <<"FederatedUser">>) THEN FederatedLabel(user_arn)
     ELSE IF PyEqStr(type, <<"AWSAccount">>)
          THEN Ok(Str(<<"Account:">>
                      \o PyStr(PyGet(user_identity, "accountId", None).val)))
     ELSE TypeFallback(user_identity)

\* the username of a record that lists the instance
Username(user_identity, user_arn) ==
  LET username == PyGet(user_identity, "userName", None).val
  IN IF Truthy(username) THEN Ok(username)
     ELSE LET session_context == PyGet(user_identity, "sessionContext", EmptyDict)
              issuer_arn == Chain(Chain(session_context, "sessionIssuer", EmptyDict),
                                  "arn", None)
              type == PyGet(user_identity, "type", None).val
          IN IF issuer_arn.err # "none" THEN issuer_arn
             ELSE IF Truthy(issuer_arn.val) THEN IssuerLabel(issuer_arn.val)
             ELSE IF PyEqStr(type, <<"AssumedRole">>) THEN AssumedRoleLabel(user_arn)
             ELSE IF PyEqStr(type, <<"FederatedUser">>) THEN FederatedLabel(user_arn)
             ELSE IF PyEqStr(type, <<"AWSAccount">>)
                  THEN Ok(Str(<<"Account:">>
                              \o PyStr(PyGet(user_identity, "accountId", None).val)))
             ELSE TypeFallback(user_identity)

\* hours east of UTC of the reported time
UtcOffsetHours == 8

\* EventTime.astimezone(timezone(timedelta(hours=8))).strftime("%Y%m%d %H:%M:%S")
FormatTime(event_time) ==
  LET h == event_time.hour + UtcOffsetHours
  IN Str(<<ToString(event_time.day + (h \div 24)), " ", ToString(h % 24)>>)

\* What handling one record does to the scan.
NoMatch == [kind |-> "continue", err |-> "none", value |-> None]
Return(x) == [kind |-> "return", err |-> "none", value |-> x]

\* except (json.JSONDecodeError, KeyError, AttributeError): continue
Caught(e) ==
  IF e \in {"JSONDecodeError", "KeyError", "AttributeError"}
  THEN [kind |-> "continue", err |-> e, value |-> None]
  ELSE [kind |-> "raise", err |-> e, value |-> None]

\* the instance-ID list the record is matched on: the response location
\* first, the request parameters only if that one is empty
CandidateItems(evt) ==
  LET items == GetItems(evt, "responseElements")
  IN IF items.err = "none" /\ ~Truthy(items.val)
     THEN GetItems(evt, "requestParameters")
     ELSE items

\* the return value built from a record that lists the instance
CreatorOf(event_rec, user_arn, username) ==
  IF ~Truthy(user_arn) THEN NoMatch
  ELSE IF "EventTime" \notin DOMAIN event_rec THEN Caught("KeyError")
  ELSE Return(Dict([time |-> FormatTime(event_rec.EventTime),
                    user_arn |-> user_arn,
                    username |-> username]))

\* the body of "for event_rec in resp.get('Events', [])"
ProcessRecord(event_rec) ==
  IF "CloudTrailEvent" \notin DOMAIN event_rec THEN Caught("KeyError")
  ELSE IF ~event_rec.CloudTrailEvent.parses THEN Caught("JSONDecodeError")
  ELSE
    LET evt == event_rec.CloudTrailEvent.json
        items == CandidateItems(evt)
        ids == IF items.err # "none" THEN items ELSE Ids(items.val)
    IN IF ids.err # "none" THEN Caught(ids.err)
       ELSE IF "EventName" \notin DOMAIN event_rec THEN Caught("KeyError")
       ELSE IF ~InIds(instance_id, ids.val) THEN NoMatch
       ELSE
         LET user_identity == PyGet(evt, "userIdentity", EmptyDict).val
             user_arn == PyGet(user_identity, "arn", None)
             username == IF user_arn.err # "none" THEN user_arn
                         ELSE Username(user_identity, user_arn.val)
         IN IF username.err # "none" THEN Caught(username.err)
            ELSE CreatorOf(event_rec, user_arn.val, username.val)

\* ------------------------------------------------------ audit records
ArnUser == <<"arn", ":", "iam", ":", "user", "/", "alice">>
ArnSession == <<"arn", ":", "sts", ":", "assumed-role", "/", "MyRole", "/", "session-name">>
ArnOneSlash == <<"arn", ":", "sts", ":", "assumed-role", "/", "MyRole">>
ArnNoSlash == <<"arn", ":", "sts", ":", "assumed-role">>
ArnIssuer == <<"arn", ":", "iam", ":", "role", "/", "AdminRole">>
ArnFederated == <<"arn", ":", "sts", ":", "federated-user", "/", "bob">>
ArnRoot == <<"arn", ":", "iam", ":", "root">>

SessionContext == Dict([sessionIssuer |-> Dict([arn |-> Str(ArnIssuer)])])

\* userIdentity objects of CloudTrail records
Identities ==
  { None,
    EmptyDict,
    Dict([type |-> Str(<<"IAMUser">>), arn |-> Str(ArnUser), userName |-> Str(<<"alice">>)]),
    Dict([type |-> Str(<<"IAMUser">>), userName |-> Str(<<"alice">>)]),
    Dict([type |-> Str(<<"IAMUser">>), arn |-> Str(<<>>), userName |-> Str(<<"alice">>)]),
    Dict([type |-> Str(<<"IAMUser">>), arn |-> Str(ArnUser), userName |-> Str(<<>>)]),
    Dict([type |-> Str(<<"IAMUser">>), arn |-> Str(ArnUser), userName |-> Str(<<"alice">>),
          sessionContext |-> SessionContext]),
    Dict([type |-> Str(<<"AssumedRole">>), arn |-> Str(ArnSession),
          sessionContext |-> SessionContext]),
    Dict([type |-> Str(<<"FederatedUser">>), arn |-> Str(ArnFederated),
          sessionContext |-> SessionContext]),
    Dict([type |-> Str(<<"AssumedRole">>), arn |-> Str(ArnSession), sessionContext |-> None]),
    Dict([type |-> Str(<<"AssumedRole">>), arn |-> Str(ArnSession)]),
    Dict([type |-> Str(<<"AssumedRole">>), arn |-> Str(ArnOneSlash)]),
    Dict([type |-> Str(<<"AssumedRole">>), arn |-> Str(ArnNoSlash)]),
    Dict([type |-> Str(<<"AssumedRole">>)]),
    Dict([type |-> Str(<<"FederatedUser">>), arn |-> Str(ArnFederated)]),
    Dict([type |-> Str(<<"FederatedUser">>)]),
    Dict([type |-> Str(<<"AWSAccount">>), arn |-> Str(ArnRoot),
          accountId |-> Str(<<"123456789012">>)]),
    Dict([type |-> Str(<<"AWSAccount">>), accountId |-> Str(<<"123456789012">>)]),
    Dict([type |-> Str(<<"Root">>), arn |-> Str(ArnRoot)]),
    Dict([type |-> Str(<<>>), arn |-> Str(ArnRoot)]),
    Dict([arn |-> Str(ArnRoot)]) }

IamUser == Dict([type |-> Str(<<"IAMUser">>), arn |-> Str(ArnUser), userName |-> Str(<<"alice">>)])

Item(id) == Dict([instanceId |-> Str(id)])
InstancesSet(items) == Dict([instancesSet |-> Dict([items |-> items])])

\* values found at responseElements / requestParameters
Locations ==
  { None,
    EmptyList,
    EmptyDict,
    Dict([instancesSet |-> None]),
    InstancesSet(None),
    InstancesSet(PyInt(5)),
    InstancesSet(EmptyList),
    InstancesSet(List(<<None>>)),
    InstancesSet(List(<<EmptyDict>>)),
    InstancesSet(List(<<Item(instance_id)>>)),
    InstancesSet(List(<<Item(other_instance_id)>>)),
    InstancesSet(List(<<Item(other_instance_id), Item(instance_id)>>)) }

RequestLocations ==
  { None, InstancesSet(None), InstancesSet(List(<<Item(instance_id)>>)),
    InstancesSet(List(<<Item(other_instance_id)>>)) }

\* CloudTrailEvent texts: what json.loads makes of them
Parsed(evt) == [parses |-> TRUE, json |-> evt]
Unparseable == [parses |-> FALSE, json |-> None]

EventTimes == { [day |-> 1, hour |-> 1], [day |-> 1, hour |-> 20] }

Record(name, evt, time) ==
  [EventName |-> name, CloudTrailEvent |-> Parsed(evt), EventTime |-> time]

\* The records lookup_events can yield for an event name.
Records(name) ==
  LET t == [day |-> 1, hour |-> 1]
      listed == InstancesSet(List(<<Item(instance_id)>>))
  IN   { [EventName |-> name, EventTime |-> t],
         [EventName |-> name, EventTime |-> t, CloudTrailEvent |-> Unparseable],
         Record(name, EmptyList, t),
         Record(name, Dict([userIdentity |-> IamUser]), t),
         [CloudTrailEvent |-> Parsed(Dict([responseElements |-> listed,
                                           userIdentity |-> IamUser])),
          EventTime |-> t],
         [CloudTrailEvent |-> Parsed(Dict([responseElements |-> listed,
                                           userIdentity |-> IamUser])),
          EventName |-> name] }
  \cup { Record(name, Dict([responseElements |-> listed, userIdentity |-> IamUser]), time) :
           time \in EventTimes }
  \cup { Record(name, Dict([responseElements |-> listed, userIdentity |-> id]), t) :
           id \in Identities }
  \cup { Record(name, Dict([responseElements |-> listed]), t) }
  \cup { Record(name, Dict([responseElements |-> resp, userIdentity |-> IamUser]), t) :
           resp \in Locations }
  \cup { Record(name, Dict([requestParameters |-> req, userIdentity |-> IamUser]), t) :
           req \in RequestLocations }
  \cup { Record(name, Dict([responseElements |-> resp, requestParameters |-> listed,
                            userIdentity |-> IamUser]), t) :
           resp \in Locations }
  \cup { Record(name, Dict([responseElements |-> resp, requestParameters |-> req,
                            userIdentity |-> IamUser]), t) :
           resp \in {EmptyDict, InstancesSet(EmptyList)}, req \in RequestLocations }

EventNames == {"RunInstances", "StartInstances", "StopInstances", "TerminateInstances"}

\* the audit service's records, by event name
RecordsOf == [name \in EventNames |-> Records(name)]

\* NextToken values of a page: absent, empty, or a cursor
NoCursor == { None, Str(<<>>) }
Cursors == { Str(<<"t1">>), Str(<<"t2">>) }

\* ------------------------------------------------------ get_instance_info
Volumes ==
  { Dict([Size |-> PyInt(1024), VolumeType |-> Str(<<"gp2">>)]),
    Dict([Size |-> PyInt(2048), VolumeType |-> Str(<<"gp3">>)]),
    Dict([VolumeType |-> Str(<<"gp2">>)]) }

\* the dict get_instance_info returns, given the instance's state and its
\* root volume as describe_volumes reports it
GetInstanceInfo(terminated, volume) ==
  Dict([instance_type |-> Str(<<"t2.micro">>),
        name |-> Str(<<"N/A">>),
        ebs_volume_size |-> IF terminated THEN PyInt(0)
                            ELSE PyGet(volume, "Size", Str(<<"unknown">>)).val,
        ebs_volume_type |-> IF terminated THEN Str(<<"unknown">>)
                            ELSE PyGet(volume, "VolumeType", Str(<<"unknown">>)).val,
        tags |-> EmptyDict])

\* ------------------------------------------------ send_ec2_event_to_slack
\* obj[key]
PyIndex(obj, key) ==
  IF obj.t # "dict" THEN Raise("TypeError")
  ELSE IF key \notin DOMAIN obj.v THEN Raise("KeyError")
  ELSE Ok(obj.v[key])

\* int(x)
PyToInt(x) ==
  CASE x.t = "int" -> Ok(x.n)
    [] x.t = "str" -> Raise("ValueError")
    [] OTHER       -> Raise("TypeError")

\* GiB above which the volume field carries the warning
LargeEbsThreshold == 1024

\* sentences in each reminder pool
PoolSize == 5

ActionTitles == {"running", "terminated", "stopping"}

\* action_title_map[action_type]
ActionTitle(action_type) ==
  IF action_type \in ActionTitles
  THEN Ok(Str(<<"EC2 Instance ", action_type>>))
  ELSE Raise("KeyError")

\* action_sub_title_map[action_type]; draw is random.randint's value
ActionSubTitle(action_type, username, draw) ==
  CASE action_type = "running"    -> Ok(Str(<<"reminders", ToString(draw)>>))
    [] action_type = "terminated" -> Ok(Str(<<"Good job ">> \o PyStr(username)))
    [] action_type = "stopping"   -> Ok(Str(<<"ec2_stop_reminders", ToString(draw)>>))
    [] OTHER                      -> Raise("KeyError")

\* the payload send_ec2_event_to_slack builds, or the exception it raises
SendEc2EventToSlack(info, creator, action_type, draw) ==
  LET username == PyIndex(creator, "username")
      size == Chain(Ok(info), "ebs_volume_size", None)
      ebs_size == IF size.err # "none" THEN size ELSE PyToInt(size.val)
      title == ActionTitle(action_type)
      subtitle == ActionSubTitle(action_type, username.val, draw)
  IN IF username.err # "none" THEN username
     ELSE IF ebs_size.err # "none" THEN ebs_size
     ELSE IF title.err # "none" THEN title
     ELSE IF subtitle.err # "none" THEN subtitle
     ELSE Ok(Dict([header |-> title.val,
                   subtitle |-> subtitle.val,
                   ebs |-> Str(PyStr(size.val) \o <<" GiB">>
                               \o IF ebs_size.val > LargeEbsThreshold
                                  THEN <<"Large EBS">> ELSE <<>>),
                   action_by |-> Str(PyStr(username.val)),
                   iam_arn |-> Str(PyStr(PyIndex(creator, "user_arn").val)),
                   action_type |-> Str(<<action_type>>),
                   action_time |-> Str(PyStr(PyIndex(creator, "time").val))]))

\* ------------------------------------------------------------ send_message
HttpStatuses == {200, 404, 500}

\* send_message's return value for the webhook's status
SendMessageResult(status_code) ==
  IF status_code # 200
  THEN [statusCode |-> 500, body |-> "Slack webhook failed"]
  ELSE [statusCode |-> 0, body |-> "None"]

\* what lambda_handler returns after send_message(block)
HandlerResult(send_result) ==
  [statusCode |-> 200, body |-> "Message sent to Slack!"]

\* ----------------------------------------------------------------- state
EventStates ==
  {"running", "RUNNING", "stopping", "terminated", "stopped", "pending"}

VARIABLES
  pc,              \* where the invocation stands
  event_state,     \* event["detail"]["state"]
  webhook_url,     \* whether SLACK_WEBHOOK_URL is set
  instance_info,   \* get_instance_info's result
  event_names,     \* name_map.get(event_state.lower())
  name_idx,        \* position of event_name in event_names
  next_token,      \* the cursor of the pagination loop
  kwargs,          \* the arguments of the latest lookup_events call
  resp,            \* the latest page: its number of events and its NextToken
  page_no,         \* pages the service has served for the current event name
  rec_idx,         \* records of the page already handled
  event_rec,       \* the record the loop body is handling; <<>> between turns
  creator_info,    \* get_creator_of_instance's return value
  error,           \* the exception that ended the invocation
  message,         \* the payload built for Slack
  posts,           \* POSTs made to the webhook
  send_result,     \* send_message's return value
  ret,             \* lambda_handler's return value
  query_failed,    \* event names whose lookup_events call raised
  n_queries,       \* lookup_events calls made
  clock,           \* datetime.utcnow(), in days; it moves while a query is served
  now,             \* the resolver's "now"
  start_time       \* the resolver's "start_time"

vars == << pc, event_state, webhook_url, instance_info, event_names, name_idx,
           next_token, kwargs, resp, page_no, rec_idx, event_rec, creator_info,
           error, message, posts, send_result, ret, query_failed, n_queries,
           clock, now, start_time >>

scan_vars == << event_names, name_idx, next_token, kwargs, resp, page_no, rec_idx,
                event_rec, query_failed, n_queries, clock, now, start_time >>
out_vars == << message, posts, send_result, ret >>

Unset == [t |-> "unset", v |-> <<>>, n |-> 0]
NoReturn == [statusCode |-> 0, body |-> "unset"]

Init ==
  /\ pc = "handler"
  /\ event_state \in EventStates
  /\ webhook_url \in BOOLEAN
  /\ instance_info = Unset
  /\ event_names = <<>>
  /\ name_idx = 0
  /\ next_token = None
  /\ kwargs = <<>>
  /\ resp = [n |-> 0, NextToken |-> None]
  /\ page_no = 0
  /\ rec_idx = 0
  /\ event_rec = <<>>
  /\ creator_info = Unset
  /\ error = "none"
  /\ message = Unset
  /\ posts = 0
  /\ send_result = NoReturn
  /\ ret = NoReturn
  /\ query_failed = {}
  /\ n_queries = 0
  /\ clock = 0
  /\ now = 0
  /\ start_time = 0

\* lambda_handler up to the call of get_creator_of_instance
HandlerStart ==
  /\ pc = "handler"
  /\ IF ~webhook_url
     THEN /\ ret' = [statusCode |-> 500, body |-> "Error: SLACK_WEBHOOK_URL environment variable not set."]
          /\ pc' = "done"
          /\ UNCHANGED instance_info
     ELSE /\ \E terminated \in BOOLEAN, volume \in Volumes :
               instance_info' = GetInstanceInfo(terminated, volume)
          /\ pc' = "resolve"
          /\ UNCHANGED ret
  /\ UNCHANGED << event_state, webhook_url, scan_vars, creator_info, error,
                  message, posts, send_result >>

\* lookback_days: int = 7
LookbackDays == 7

\* get_creator_of_instance up to the first query
ResolverStart ==
  /\ pc = "resolve"
  /\ now' = clock
  /\ start_time' = clock - LookbackDays
  /\ LET names == NameMap(Lower(event_state))
     IN IF names = <<>>
        THEN /\ error' = "ValueError"
             /\ pc' = "raised"
             /\ UNCHANGED << event_names, name_idx >>
        ELSE /\ event_names' = names
             /\ name_idx' = 1
             /\ pc' = "query"
             /\ UNCHANGED error
  /\ next_token' = None
  /\ UNCHANGED << event_state, webhook_url, instance_info, kwargs, resp, page_no,
                  rec_idx, event_rec, query_failed, n_queries, clock, creator_info,
                  out_vars >>

\* get_creator_of_instance is left, by return or by an exception: its
\* locals are gone
LeaveResolver ==
  /\ event_names' = <<>>
  /\ name_idx' = 0
  /\ next_token' = None
  /\ resp' = [n |-> 0, NextToken |-> None]
  /\ page_no' = 0
  /\ rec_idx' = 0
  /\ event_rec' = <<>>
  /\ now' = 0
  /\ start_time' = 0

\* the loop moving on without "next_token = None": the next name inherits
\* the cursor
NextEventNameKeepsCursor ==
  IF name_idx < Len(event_names)
  THEN /\ name_idx' = name_idx + 1
       /\ page_no' = 0
       /\ pc' = "query"
       /\ UNCHANGED << creator_info, event_names, next_token, resp, rec_idx,
                       event_rec, now, start_time >>
  ELSE /\ creator_info' = None
       /\ pc' = "render"
       /\ LeaveResolver

\* the "for event_name in event_names" loop moving on: the next name with
\* next_token = None, or "return None" after the last one
NextEventName ==
  IF name_idx < Len(event_names)
  THEN /\ name_idx' = name_idx + 1
       /\ next_token' = None
       /\ page_no' = 0
       /\ pc' = "query"
       /\ UNCHANGED << creator_info, event_names, resp, rec_idx, event_rec, now,
                       start_time >>
  ELSE /\ creator_info' = None
       /\ pc' = "render"
       /\ LeaveResolver

\* the arguments of one lookup_events call
Kwargs(event_name, token) ==
  IF Truthy(token)
  THEN [EventName |-> event_name, StartTime |-> start_time, EndTime |-> now,
        NextToken |-> token]
  ELSE [EventName |-> event_name, StartTime |-> start_time, EndTime |-> now]

\* ct.lookup_events(**kwargs) returns a page
LookupEvents ==
  /\ pc = "query"
  /\ page_no < MaxPages
  /\ kwargs' = Kwargs(event_names[name_idx], next_token)
  /\ n_queries' = n_queries + 1
  /\ clock' = clock + 1
  /\ page_no' = page_no + 1
  /\ \E n \in 0..MaxPageLen,
        token \in IF page_no + 1 < MaxPages THEN NoCursor \cup Cursors ELSE NoCursor :
       resp' = [n |-> n, NextToken |-> token]
  /\ rec_idx' = 0
  /\ pc' = "records"
  /\ UNCHANGED << event_state, webhook_url, instance_info, event_names, name_idx,
                  next_token, event_rec, creator_info, error, query_failed, now,
                  start_time, out_vars >>

\* ct.lookup_events(**kwargs) raises and nothing catches it
LookupEventsFailsUncaught ==
  /\ pc = "query"
  /\ kwargs' = Kwargs(event_names[name_idx], next_token)
  /\ n_queries' = n_queries + 1
  /\ clock' = clock + 1
  /\ query_failed' = query_failed \cup {event_names[name_idx]}
  /\ error' = "ClientError"
  /\ pc' = "raised"
  /\ LeaveResolver
  /\ UNCHANGED << event_state, webhook_url, instance_info, creator_info, out_vars >>

\* ct.lookup_events(**kwargs) raises: break
LookupEventsFails ==
  /\ pc = "query"
  /\ kwargs' = Kwargs(event_names[name_idx], next_token)
  /\ n_queries' = n_queries + 1
  /\ clock' = clock + 1
  /\ query_failed' = query_failed \cup {event_names[name_idx]}
  /\ NextEventName
  /\ UNCHANGED << event_state, webhook_url, instance_info, error, out_vars >>

\* "for event_rec in resp.get('Events', [])" takes the page's next record
NextRecord ==
  /\ pc = "records"
  /\ rec_idx < resp.n
  /\ event_rec' \in RecordsOf[event_names[name_idx]]
  /\ pc' = "record"
  /\ UNCHANGED << event_state, webhook_url, instance_info, event_names, name_idx,
                  next_token, kwargs, resp, page_no, rec_idx, query_failed, n_queries,
                  clock, now, start_time, creator_info, error, out_vars >>

\* the loop body remembering the match and going on with the scan
HandleRecordKeepsScanning ==
  /\ pc = "record"
  /\ LET out == ProcessRecord(event_rec)
     IN IF out.kind = "raise"
        THEN /\ error' = out.err
             /\ pc' = "raised"
             /\ LeaveResolver
             /\ UNCHANGED creator_info
        ELSE /\ creator_info' = IF out.kind = "return" THEN out.value ELSE creator_info
             /\ rec_idx' = rec_idx + 1
             /\ event_rec' = <<>>
             /\ pc' = "records"
             /\ UNCHANGED << event_names, name_idx, next_token, resp, page_no, error,
                             now, start_time >>
  /\ UNCHANGED << event_state, webhook_url, instance_info, kwargs, query_failed,
                  n_queries, clock, out_vars >>

\* the loop body on event_rec: return, continue or an exception that escapes
HandleRecord ==
  /\ pc = "record"
  /\ LET out == ProcessRecord(event_rec)
     IN CASE out.kind = "return" ->
               /\ creator_info' = out.value
               /\ pc' = "render"
               /\ LeaveResolver
               /\ UNCHANGED error
          [] out.kind = "raise" ->
               /\ error' = out.err
               /\ pc' = "raised"
               /\ LeaveResolver
               /\ UNCHANGED creator_info
          [] OTHER ->
               /\ rec_idx' = rec_idx + 1
               /\ event_rec' = <<>>
               /\ pc' = "records"
               /\ UNCHANGED << event_names, name_idx, next_token, resp, page_no,
                               creator_info, error, now, start_time >>
  /\ UNCHANGED << event_state, webhook_url, instance_info, kwargs, query_failed,
                  n_queries, clock, out_vars >>

\* next_token = resp.get("NextToken"); if not next_token: break
EndOfPage ==
  /\ pc = "records"
  /\ rec_idx = resp.n
  /\ IF Truthy(resp.NextToken)
     THEN /\ next_token' = resp.NextToken
          /\ pc' = "query"
          /\ UNCHANGED << event_names, name_idx, page_no, creator_info, resp, rec_idx,
                          event_rec, now, start_time >>
     ELSE NextEventName
  /\ UNCHANGED << event_state, webhook_url, instance_info, kwargs, error,
                  query_failed, n_queries, clock, out_vars >>

\* block = send_ec2_event_to_slack(instance_info, creator_info, state, ...)
Render ==
  /\ pc = "render"
  /\ \E draw \in 1..PoolSize :
       LET block == SendEc2EventToSlack(instance_info, creator_info, event_state, draw)
       IN IF block.err # "none"
          THEN /\ error' = block.err
               /\ pc' = "raised"
               /\ UNCHANGED message
          ELSE /\ message' = block.val
               /\ pc' = "send"
               /\ UNCHANGED error
  /\ UNCHANGED << event_state, webhook_url, instance_info, scan_vars, creator_info,
                  posts, send_result, ret >>

\* send_message(block) and lambda_handler's return
SendMessage ==
  /\ pc = "send"
  /\ \E status_code \in HttpStatuses :
       /\ send_result' = SendMessageResult(status_code)
       /\ ret' = HandlerResult(SendMessageResult(status_code))
  /\ posts' = posts + 1
  /\ pc' = "done"
  /\ UNCHANGED << event_state, webhook_url, instance_info, scan_vars, creator_info,
                  error, message >>

Next ==
  \/ HandlerStart
  \/ ResolverStart
  \/ LookupEvents
  \/ LookupEventsFails
  \/ NextRecord
  \/ HandleRecord
  \/ EndOfPage
  \/ Render
  \/ SendMessage

Spec == Init /\ [][Next]_vars

\* ------------------------------------------------------------ properties
\* States written as the code recognizes them (the lookup lowercases).
Recognized == {"running", "RUNNING", "stopping", "terminated"}

\* The invocation is past get_creator_of_instance.
ResolverLeft == pc \in {"render", "send", "done", "raised"} /\ webhook_url

\* The resolver returned a record; it returned None.
ReturnedRecord == creator_info.t = "dict"
ReturnedAbsent == creator_info.t = "null"

\* A step in which the loop body handles event_rec and returns a record.
ReturnsRecord == pc = "record" /\ pc' = "render" /\ creator_info'.t = "dict"

\* --- what a record holds, read off the record itself
HasPayload(rec) ==
  /\ "CloudTrailEvent" \in DOMAIN rec
  /\ rec.CloudTrailEvent.parses
  /\ rec.CloudTrailEvent.json.t = "dict"

Payload(rec) == rec.CloudTrailEvent.json.v

\* the instance-ID items at a location: none when the location or its
\* instancesSet is missing; not ok when something on the way has another shape
ItemsAt(payload, loc) ==
  IF loc \notin DOMAIN payload THEN [ok |-> TRUE, items |-> <<>>]
  ELSE IF payload[loc].t # "dict" THEN [ok |-> FALSE, items |-> <<>>]
  ELSE IF "instancesSet" \notin DOMAIN payload[loc].v THEN [ok |-> TRUE, items |-> <<>>]
  ELSE IF payload[loc].v.instancesSet.t # "dict" THEN [ok |-> FALSE, items |-> <<>>]
  ELSE IF "items" \notin DOMAIN payload[loc].v.instancesSet.v THEN [ok |-> TRUE, items |-> <<>>]
  ELSE LET items == payload[loc].v.instancesSet.v.items
       IN IF items.t = "list" /\ \A i \in 1..Len(items.v) : items.v[i].t = "dict"
          THEN [ok |-> TRUE, items |-> items.v]
          ELSE [ok |-> items.t = "null", items |-> <<>>]

HasInstance(items, id) ==
  \E i \in 1..Len(items) :
    /\ "instanceId" \in DOMAIN items[i].v
    /\ items[i].v.instanceId = Str(id)

\* the record lists the instance at one of its two locations
ListsInstance(rec) ==
  /\ HasPayload(rec)
  /\ \E loc \in {"responseElements", "requestParameters"} :
       HasInstance(ItemsAt(Payload(rec), loc).items, instance_id)

IdentityOf(rec) ==
  IF "userIdentity" \in DOMAIN Payload(rec) THEN Payload(rec).userIdentity ELSE EmptyDict

HasField(identity, key) ==
  identity.t = "dict" /\ key \in DOMAIN identity.v /\ Truthy(identity.v[key])

\* the record carries an identity ARN
HasArn(rec) == HasPayload(rec) /\ HasField(IdentityOf(rec), "arn")

\* the list the match is decided on: the response location's, and the
\* request parameters' only when the response location yields no items
ConsultedItems(payload) ==
  LET response == ItemsAt(payload, "responseElements")
  IN IF response.ok /\ response.items = <<>>
     THEN ItemsAt(payload, "requestParameters")
     ELSE response

SessionIssuerArn(identity) ==
  IF /\ "sessionContext" \in DOMAIN identity.v
     /\ identity.v.sessionContext.t = "dict"
     /\ "sessionIssuer" \in DOMAIN identity.v.sessionContext.v
     /\ HasField(identity.v.sessionContext.v.sessionIssuer, "arn")
  THEN identity.v.sessionContext.v.sessionIssuer.v.arn.v
  ELSE <<>>

IdentityType(identity) ==
  IF "type" \in DOMAIN identity.v THEN identity.v.type.v ELSE <<"absent">>

\* positions of the separators in a string, and the text after the last one
Positions(str, seps) == { i \in 1..Len(str) : str[i] \in seps }
LastOf(S) == IF S = {} THEN 0 ELSE CHOOSE i \in S : \A j \in S : j <= i
AfterLast(str, seps) == SubSeq(str, LastOf(Positions(str, seps)) + 1, Len(str))
BeforeLast(str, seps) == SubSeq(str, 1, LastOf(Positions(str, seps)) - 1)

\* a label can be derived from the identity: it has a username, or its
\* session context is an object and an assumed role's ARN has a path
LabelDerivable(identity) ==
  \/ HasField(identity, "userName")
  \/ /\ "sessionContext" \in DOMAIN identity.v => identity.v.sessionContext.t = "dict"
     /\ \/ SessionIssuerArn(identity) # <<>>
        \/ IdentityType(identity) \notin {<<"AssumedRole">>, <<"FederatedUser">>}
        \/ /\ HasField(identity, "arn")
           /\ \/ IdentityType(identity) = <<"FederatedUser">>
              \/ Positions(identity.v.arn.v, {"/"}) # {}

\* The record is one the resolver accepts: well-formed, the instance in the
\* consulted list, an identity ARN, an event name and an event time.
Accepted(rec) ==
  /\ HasPayload(rec)
  /\ {"EventName", "EventTime"} \subseteq DOMAIN rec
  /\ ConsultedItems(Payload(rec)).ok
  /\ HasInstance(ConsultedItems(Payload(rec)).items, instance_id)
  /\ HasArn(rec)
  /\ LabelDerivable(IdentityOf(rec))

\* the label the priority rule gives an identity
ExpectedLabel(identity) ==
  LET arn == IF HasField(identity, "arn") THEN identity.v.arn.v ELSE <<>>
      type == IdentityType(identity)
  IN IF HasField(identity, "userName") THEN identity.v.userName.v
     ELSE IF SessionIssuerArn(identity) # <<>>
          THEN AfterLast(SessionIssuerArn(identity), {"/"}) \o <<" (AssumedRole)">>
     ELSE IF type = <<"AssumedRole">>
          THEN AfterLast(BeforeLast(arn, {"/"}), {"/", ":"}) \o <<"/">>
               \o AfterLast(arn, {"/"}) \o <<" (AssumedRole)">>
     ELSE IF type = <<"FederatedUser">>
          THEN AfterLast(arn, {"/"}) \o <<" (Federated)">>
     ELSE IF type = <<"AWSAccount">>
          THEN <<"Account:">> \o identity.v.accountId.v
     ELSE IF "type" \in DOMAIN identity.v THEN type
     ELSE <<"<unknown_identity>">>

\* C1: a record the resolver returns has a non-empty ARN, a non-empty label
\* and an event time.
C1_ReturnedRecordIsFullyPopulated ==
  ReturnedRecord =>
    /\ Truthy(creator_info.v.user_arn)
    /\ Truthy(creator_info.v.username)
    /\ Truthy(creator_info.v.time)

\* C2: when the resolver returned absent, rendering raises nothing and every
\* actor-derived field of the document shows a placeholder.
C2_AbsentActorRendersPlaceholders ==
  (ReturnedAbsent /\ pc \in {"send", "done", "raised"}) =>
    /\ pc # "raised"
    /\ message.v.action_by.v \in {<<"Unknown">>, <<"N/A">>}
    /\ message.v.iam_arn.v \in {<<"Unknown">>, <<"N/A">>}
    /\ message.v.action_time.v \in {<<"Unknown">>, <<"N/A">>}

\* C3: handling a record never aborts the scan: the record is skipped and the
\* scan goes on with the rest of the page, or the record is the match.
C3_NoRecordAbortsTheScan ==
  [][pc = "record" =>
       \/ ReturnsRecord
       \/ /\ pc' = "records"
          /\ rec_idx' = rec_idx + 1
          /\ UNCHANGED << event_names, name_idx, next_token, resp, error >>]_vars

\* the instance is listed in the request parameters only: the response
\* location is absent, null, or holds an empty list
RequestOnly(rec) ==
  /\ HasPayload(rec)
  /\ HasInstance(ItemsAt(Payload(rec), "requestParameters").items, instance_id)
  /\ \/ "responseElements" \notin DOMAIN Payload(rec)
     \/ Payload(rec).responseElements.t = "null"
     \/ Payload(rec).responseElements = InstancesSet(EmptyList)

\* C4: a record that lists the instance only in its request parameters (and
\* is otherwise complete) is matched and returned.
C4_RequestOnlyRecordIsMatched ==
  [][(/\ pc = "record"
      /\ RequestOnly(event_rec)
      /\ HasField(IdentityOf(event_rec), "userName")
      /\ HasArn(event_rec)
      /\ {"EventName", "EventTime"} \subseteq DOMAIN event_rec)
     => ReturnsRecord]_vars

\* once the resolver has returned, nothing more is examined or queried
NothingAfterReturn ==
  (creator_info.t # "unset") =>
    /\ n_queries' = n_queries
    /\ kwargs' = kwargs
    /\ event_rec' = <<>>
    /\ creator_info' = creator_info
    /\ pc' \notin {"query", "records", "record"}

QueryFails == pc = "query" /\ n_queries' = n_queries + 1 /\ pc' # "records"

\* C6: a failed query ends only its event name's scan: no error is raised,
\* the name is not queried again, the next name starts without a cursor
\* (or, after the last name, the resolver returns absent), and an accepted
\* record under a later name is still returned.
C6_QueryFailureEndsOnlyThatName ==
  [][/\ QueryFails =>
          /\ error' = error
          /\ pc' # "raised"
          /\ IF name_idx < Len(event_names)
             THEN /\ pc' = "query"
                  /\ event_names' = event_names
                  /\ name_idx' = name_idx + 1
                  /\ next_token' = None
                  /\ creator_info' = creator_info
             ELSE /\ pc' = "render"
                  /\ creator_info' = None
     /\ (pc = "record" /\ query_failed # {} /\ Accepted(event_rec)) => ReturnsRecord]_vars

\* a record was returned under StartInstances after the RunInstances query failed
C6_Witness ==
  /\ ReturnedRecord
  /\ query_failed = {"RunInstances"}
  /\ kwargs.EventName = "StartInstances"

\* C7: for a state that is not recognized the resolver raises ValueError
\* before any query, and returns nothing.
C7_UnsupportedStateRaises ==
  (event_state \notin Recognized /\ pc \notin {"handler", "resolve"} /\ webhook_url) =>
    /\ pc = "raised"
    /\ error = "ValueError"
    /\ n_queries = 0
    /\ kwargs = <<>>
    /\ creator_info = Unset

C7_Witness ==
  /\ event_state = "stopped"
  /\ pc = "raised"
  /\ error = "ValueError"

\* C8: for a recognized state the resolver ends with a record or with absent,
\* never with an error; absent exactly when the scans ended without a match.
C8_ScanEndsWithMatchOrAbsent ==
  (event_state \in Recognized /\ ResolverLeft) =>
    (ReturnedRecord \/ ReturnedAbsent)

\* C9: when the webhook answered with a non-success status, the invocation
\* returns a failure, having posted once.
C9_DeliveryFailureIsReturned ==
  (pc = "done" /\ send_result.statusCode = 500) =>
    /\ ret.statusCode # 200
    /\ posts = 1

\* C10: the label of a returned record follows the priority username, session
\* issuer, assumed role, federated user, account, identity type, marker.
C10_LabelFollowsPriority ==
  [][ReturnsRecord =>
       creator_info'.v.username = Str(ExpectedLabel(IdentityOf(event_rec)))]_vars

\* the assumed-role label built from the ARN's last two path segments
C10_Witness ==
  /\ ReturnedRecord
  /\ creator_info.v.user_arn = Str(ArnSession)
  /\ creator_info.v.username = Str(<<"MyRole", "/", "session-name", " (AssumedRole)">>)

\* the document has been built, or building it raised
Rendered == pc \in {"send", "done", "raised"}

\* the size get_instance_info reported is a number
NumericSize == instance_info.v.ebs_volume_size.t = "int"

\* the volume field ends with the large-volume warning
HasEbsWarning(doc) == doc.v.ebs.v[Len(doc.v.ebs.v)] = "Large EBS"

\* C11: with an actor and a titled state, rendering never fails on the size,
\* and the volume field carries the warning exactly when the size is a
\* number above 1024 (2048 yes, 1024 no, "unknown" no).
C11_WarningExactlyAbove1024 ==
  (ReturnedRecord /\ event_state \in ActionTitles /\ Rendered) =>
    /\ pc # "raised"
    /\ HasEbsWarning(message) <=>
         (NumericSize /\ instance_info.v.ebs_volume_size.n > 1024)

\* str.capitalize() on the state strings an event can carry
Capitalize(s) ==
  CASE s = "running"    -> "Running"
    [] s = "RUNNING"    -> "Running"
    [] s = "stopping"   -> "Stopping"
    [] s = "terminated" -> "Terminated"
    [] s = "stopped"    -> "Stopped"
    [] s = "pending"    -> "Pending"
    [] OTHER            -> s

\* C12: for a state outside the title enumeration, rendering (with an actor
\* and a numeric size) does not fail and gives the generic title and the
\* generic "state changed to" subtitle.
C12_UnknownStateRendersGenericTitle ==
  (ReturnedRecord /\ NumericSize /\ event_state \notin ActionTitles /\ Rendered) =>
    /\ pc # "raised"
    /\ message.v.header = Str(<<"EC2 Instance ", Capitalize(event_state)>>)
    /\ message.v.subtitle = Str(<<"Instance state changed to ", event_state>>)

\* this step makes a lookup_events call
QueryStep == n_queries' = n_queries + 1

\* the call's arguments carry a cursor
CarriesCursor(args) == "NextToken" \in DOMAIN args

\* the scan of the name of the latest call is over: the call raised, or its
\* page came with an empty or absent cursor
ScanEnded == kwargs.EventName \in query_failed \/ ~Truthy(resp.NextToken)

\* C13: event names are scanned one after another.  The first query for a
\* name carries no cursor; a later query for it carries exactly the cursor
\* of that name's previous page, which was not empty; the next name is
\* queried only after the previous name's scan ended, and without a cursor.
\* Every query carries the window computed before the first query.
C13_NamesScannedOneAfterAnother ==
  [][QueryStep =>
       /\ kwargs'.EventName = event_names[name_idx]
       /\ kwargs'.EndTime = clock - n_queries
       /\ kwargs'.StartTime = kwargs'.EndTime - LookbackDays
       /\ IF n_queries = 0
          THEN name_idx = 1 /\ ~CarriesCursor(kwargs')
          ELSE /\ kwargs'.StartTime = kwargs.StartTime
               /\ kwargs'.EndTime = kwargs.EndTime
               /\ IF kwargs'.EventName = kwargs.EventName
                  THEN /\ ~ScanEnded
                       /\ CarriesCursor(kwargs')
                       /\ kwargs'.NextToken = resp.NextToken
                  ELSE /\ ScanEnded
                       /\ name_idx > 1
                       /\ kwargs.EventName = event_names[name_idx - 1]
                       /\ ~CarriesCursor(kwargs')]_vars

\* two pages of RunInstances were asked for, the second with the first
\* page's cursor, and StartInstances is then queried without a cursor
C13_Witness ==
  /\ n_queries = 3
  /\ clock > now
  /\ pc = "records"
  /\ kwargs.EventName = "StartInstances"
  /\ ~CarriesCursor(kwargs)

====
